---- MODULE Spec2Model ----
(***************************************************************************)
(* Model of the PEPPER orchestration core: the task map and dependency     *)
(* maps of AgentOrchestrator (src/core/agent_orchestrator.py), its         *)
(* dispatch loop process_tasks, the retry engine _execute_task_with_retry  *)
(* and RetryStrategy.calculate_delay.                                      *)
(*                                                                         *)
(* process_tasks is one coroutine; pc is its position.  Other coroutines   *)
(* (callers of add_task) run only while process_tasks is suspended in an   *)
(* await.  Collaborators (agents, the feedback system, the metrics sink,   *)
(* milestone persistence) are the environment: each of their calls either  *)
(* returns or raises.                                                      *)
(***************************************************************************)
EXTENDS Integers, Sequences, FiniteSets, TLC

\* ------------------------------------------------------------------ bounds
\* number of task insertions (add_task calls plus PM-generated tasks)
MaxAdds == 2

\* task ids that callers and the PM agent draw from
TaskIds == {"t1", "t2"}

\* dependency lists handed to add_task / carried by PM task dicts
DepLists == {l \in SUBSET TaskIds : Cardinality(l) <= 1}

\* an Optional[List[str]] argument: <<>> is None, <<l>> is the list l
None == <<>>
OptionalDeps == {None} \cup {<<l>> : l \in DepLists}

\* ---------------------------------------------------------- configuration
\* keys of self.agents (the registry)
agents == {"pm_agent", "worker"}

\* agent_id values a task may name: the registered ones and an unknown one
AgentChoices == agents \cup {"ghost"}

\* self.transient_errors: exception type -> retry ceiling
transient_errors ==
    [e \in {"TransientError", "ConnectionError", "TimeoutError",
            "FileNotFoundError", "PermissionError"} |->
        IF e \in {"TransientError", "ConnectionError", "TimeoutError"} THEN 3 ELSE 1]

\* exception types an agent's run_task raises in this model
ErrorTypes == {"TransientError", "FileNotFoundError", "FatalError"}

\* RetryStrategy() with its default arguments
default_retry_strategy ==
    [max_retries |-> 3, base_delay |-> 1, max_delay |-> 32, strategy |-> "exponential"]

Min(a, b) == IF a <= b THEN a ELSE b

\* calculate_delay with the unknown-strategy branch returning base_delay
calculate_delay_UnknownIsFixed(self, attempt) ==
    IF self.strategy = "exponential"
        THEN Min(self.base_delay * (2 ^ (attempt - 1)), self.max_delay)
    ELSE IF self.strategy = "linear"
        THEN Min(self.base_delay * attempt, self.max_delay)
    ELSE self.base_delay

\* calculate_delay with the linear branch left uncapped
calculate_delay_LinearNoCap(self, attempt) ==
    IF self.strategy = "linear"
        THEN self.base_delay * attempt
    ELSE IF self.strategy = "fixed"
        THEN self.base_delay
    ELSE Min(self.base_delay * (2 ^ (attempt - 1)), self.max_delay)

\* calculate_delay with the exponential branch left uncapped
calculate_delay_ExponentialNoCap(self, attempt) ==
    IF self.strategy = "exponential"
        THEN self.base_delay * (2 ^ (attempt - 1))
    ELSE IF self.strategy = "linear"
        THEN Min(self.base_delay * attempt, self.max_delay)
    ELSE IF self.strategy = "fixed"
        THEN self.base_delay
    ELSE Min(self.base_delay * (2 ^ (attempt - 1)), self.max_delay)

\* RetryStrategy.calculate_delay
calculate_delay(self, attempt) ==
    IF self.strategy = "exponential"
        THEN Min(self.base_delay * (2 ^ (attempt - 1)), self.max_delay)
    ELSE IF self.strategy = "linear"
        THEN Min(self.base_delay * attempt, self.max_delay)
    ELSE IF self.strategy = "fixed"
        THEN self.base_delay
    ELSE Min(self.base_delay * (2 ^ (attempt - 1)), self.max_delay)

\* AgentOrchestrator._get_retry_strategy: the per-agent or default strategy
_get_retry_strategy(agent_id) == default_retry_strategy

\* AgentOrchestrator._get_retry_count: table lookup, unknown types are fatal
_get_retry_count(e, agent_id) ==
    IF e \in DOMAIN transient_errors THEN transient_errors[e] ELSE 0

\* RetryDecision with "attempt < retry_count": one retry too few
RetryDecision_OneRetryShort(attempt, retry_count) ==
    IF retry_count = 0 THEN "fatal"
    ELSE IF attempt < retry_count THEN "retry"
    ELSE "max_retries_exceeded"

\* RetryDecision without the "retry_count == 0" branch, counting retries
\* instead of attempts
RetryDecision_NoFatalBranch(attempt, retry_count) ==
    IF attempt - 1 <= retry_count THEN "retry"
    ELSE "max_retries_exceeded"

\* the decision of the except branch of _execute_task_with_retry:
\* "if retry_count == 0" ... "if attempt <= retry_count" ... "else"
RetryDecision(attempt, retry_count) ==
    IF retry_count = 0 THEN "fatal"
    ELSE IF attempt <= retry_count THEN "retry"
    ELSE "max_retries_exceeded"

\* ------------------------------------------------------------------- state
VARIABLES
    tasks,                  \* self.tasks: dict in insertion order, as a sequence of TaskDependency
    completed_tasks,        \* self.completed_tasks: task_id -> TaskDependency
    task_dependencies,      \* self.task_dependencies: task_id -> set of ids
    reverse_dependencies,   \* self.reverse_dependencies: task_id -> set of ids
    completions,            \* number of TaskCompletions handed to record_task_completion, per (task_id, success)
    pc,                     \* position of the process_tasks coroutine
    ready,                  \* rest of the ready_tasks list the for loop iterates
    cur,                    \* the for loop's task
    attempt,                \* attempt argument of the running _execute_task_with_retry
    result,                 \* the dict agent.run_task returned, held across the await that records it
    log,                    \* outcomes of the agent calls made for cur
    sleeps,                 \* backoff delays slept for cur
    metric,                 \* the last record_metric call made for cur
    adds,                   \* number of insertions so far
    strategy,               \* the RetryStrategy whose calculate_delay gives the backoff delays
    milestones,             \* self.milestones: milestone_id -> MilestoneStatus
    now,                    \* the clock datetime.now() reads
    task_queue,             \* the task queue handed to the TimelineEstimatorAgent
    agent_throughput,       \* TimelineEstimatorAgent.agent_throughput: agent_id -> statistics
    simulation,             \* locals of the running _simulate_execution
    network,                \* encrypted messages produced so far, each deliverable any number of times
    _message_cache,         \* SecureCommunication._message_cache: "sender_id:nonce" -> time of acceptance
    ret                     \* what the calls examined returned, raised or were handed

vars == <<tasks, completed_tasks, task_dependencies, reverse_dependencies,
          completions, pc, ready, cur, attempt, result, log, sleeps,
          metric, adds, strategy, milestones, now, task_queue,
          agent_throughput, simulation, network, _message_cache, ret>>

\* state of the milestone tracker, of the timeline estimator and of the
\* message channel
collaborator_vars == <<milestones, now, task_queue, agent_throughput, simulation,
                       network, _message_cache, ret>>

\* state of the task scheduler
scheduler_vars == <<tasks, completed_tasks, task_dependencies, reverse_dependencies,
                    completions, pc, ready, cur, attempt, result, log, sleeps,
                    metric, adds, strategy>>

\* no simulation running
NoSimulation == [pc |-> "none"]

NoResult == [status |-> "none", error_type |-> "none"]
NoTask == [task_id |-> "none", agent_id |-> "none", depends_on |-> {},
           status |-> "none", result |-> NoResult]

\* no record_metric call yet
NoMetric == [status |-> "none", retries_attempted |-> 0]

\* no value returned by an agent yet
NoReturn == [status |-> "none", tasks |-> <<>>]

\* TaskDependency.__init__
TaskDependency(task_id, agent_id, depends_on) ==
    [task_id |-> task_id, agent_id |-> agent_id, depends_on |-> depends_on,
     status |-> "pending", result |-> NoResult]

\* keys of the self.tasks dict
TaskKeys == {tasks[i].task_id : i \in DOMAIN tasks}

\* d[key] = value on a dict kept in insertion order
DictSet(d, rec) ==
    IF \E i \in DOMAIN d : d[i].task_id = rec.task_id
        THEN [i \in DOMAIN d |-> IF d[i].task_id = rec.task_id THEN rec ELSE d[i]]
        ELSE Append(d, rec)

\* d.pop(key)
DictPop(d, id) == SelectSeq(d, LAMBDA x : x.task_id # id)

\* m[key] = value on a dict whose order does not matter
MapSet(m, k, v) == [x \in DOMAIN m \cup {k} |-> IF x = k THEN v ELSE m[x]]

\* the reverse-dependency update loop of add_task / _handle_pm_task_results
AddReverse(rev, deps, task_id) ==
    [d \in DOMAIN rev \cup deps |->
        IF d \in deps
            THEN (IF d \in DOMAIN rev THEN rev[d] ELSE {}) \cup {task_id}
            ELSE rev[d]]

\* AgentOrchestrator._get_ready_tasks
_get_ready_tasks ==
    SelectSeq(tasks, LAMBDA task :
        /\ task.status = "pending"
        /\ \A dep \in task.depends_on : dep \in DOMAIN completed_tasks)

\* places where process_tasks is suspended in an await (or not running yet)
AwaitPoints == {"idle", "wait", "run", "record", "backoff", "milestone", "record_failed"}

\* the task scheduler before any add_task
IdleScheduler ==
    /\ tasks = <<>>
    /\ completed_tasks = <<>>
    /\ task_dependencies = <<>>
    /\ reverse_dependencies = <<>>
    /\ completions = [c \in TaskIds \X BOOLEAN |-> 0]
    /\ pc = "idle"
    /\ ready = <<>>
    /\ cur = NoTask
    /\ attempt = 0
    /\ result = NoReturn
    /\ log = <<>>
    /\ sleeps = <<>>
    /\ metric = NoMetric
    /\ adds = 0
    /\ strategy = default_retry_strategy

\* no milestone loaded, no TimelineEstimatorAgent at work
IdleCollaborators ==
    /\ milestones = <<>>
    /\ now = 0
    /\ task_queue = <<>>
    /\ agent_throughput = <<>>
    /\ simulation = NoSimulation
    /\ network = {}
    /\ _message_cache = <<>>
    /\ ret = None

Init ==
    /\ tasks = <<>>
    /\ completed_tasks = <<>>
    /\ task_dependencies = <<>>
    /\ reverse_dependencies = <<>>
    /\ completions = [c \in TaskIds \X BOOLEAN |-> 0]
    /\ pc = "idle"
    /\ ready = <<>>
    /\ cur = NoTask
    /\ attempt = 0
    /\ result = NoReturn
    /\ log = <<>>
    /\ sleeps = <<>>
    /\ metric = NoMetric
    /\ adds = 0
    /\ strategy = default_retry_strategy
    /\ IdleCollaborators

\* ---------------------------------------------------------------- add_task
\* AgentOrchestrator.add_task; with dependencies=None the loop over
\* dependencies raises TypeError after the two assignments before it
add_task(task_id, agent_id, dependencies) ==
    /\ pc \in AwaitPoints
    /\ adds < MaxAdds
    /\ LET deps == IF dependencies = None THEN {} ELSE dependencies[1]
       IN /\ tasks' = DictSet(tasks, TaskDependency(task_id, agent_id, deps))
          /\ task_dependencies' = MapSet(task_dependencies, task_id, deps)
          /\ reverse_dependencies' = AddReverse(reverse_dependencies, deps, task_id)
    /\ adds' = adds + 1
    /\ UNCHANGED <<collaborator_vars, strategy, completed_tasks, completions, pc, ready, cur, attempt, result,
                   log, sleeps, metric>>

\* ----------------------------------------------------------- process_tasks
\* the per-task locals are dead once the for loop moves on from the task
ClearLocals ==
    /\ cur' = NoTask
    /\ attempt' = 0
    /\ result' = NoReturn
    /\ log' = <<>>
    /\ sleeps' = <<>>
    /\ metric' = NoMetric

\* the call of process_tasks
process_tasks ==
    /\ pc = "idle"
    /\ pc' = "loop"
    /\ UNCHANGED <<collaborator_vars, strategy, tasks, completed_tasks, task_dependencies, reverse_dependencies,
                   completions, ready, cur, attempt, result, log, sleeps,
                   metric, adds>>

\* LoopExit with "while ready tasks remain" as the loop condition
LoopExit_WhenNothingReady ==
    /\ pc = "loop"
    /\ _get_ready_tasks = <<>>
    /\ pc' = "done"
    /\ UNCHANGED <<collaborator_vars, strategy, tasks, completed_tasks, task_dependencies, reverse_dependencies,
                   completions, ready, cur, attempt, result, log, sleeps,
                   metric, adds>>

\* "while self.tasks" is false: process_tasks returns
LoopExit ==
    /\ pc = "loop"
    /\ tasks = <<>>
    /\ pc' = "done"
    /\ UNCHANGED <<collaborator_vars, strategy, tasks, completed_tasks, task_dependencies, reverse_dependencies,
                   completions, ready, cur, attempt, result, log, sleeps,
                   metric, adds>>

\* "if not ready_tasks: await asyncio.sleep(1); continue"
LoopWait ==
    /\ pc = "loop"
    /\ tasks # <<>>
    /\ _get_ready_tasks = <<>>
    /\ pc' = "wait"
    /\ UNCHANGED <<collaborator_vars, strategy, tasks, completed_tasks, task_dependencies, reverse_dependencies,
                   completions, ready, cur, attempt, result, log, sleeps,
                   metric, adds>>

\* asyncio.sleep(1) returns
WaitWake ==
    /\ pc = "wait"
    /\ pc' = "loop"
    /\ UNCHANGED <<collaborator_vars, strategy, tasks, completed_tasks, task_dependencies, reverse_dependencies,
                   completions, ready, cur, attempt, result, log, sleeps,
                   metric, adds>>

\* "for task in ready_tasks" is entered with a non-empty list
LoopDispatch ==
    /\ pc = "loop"
    /\ tasks # <<>>
    /\ _get_ready_tasks # <<>>
    /\ ready' = _get_ready_tasks
    /\ pc' = "for"
    /\ UNCHANGED <<collaborator_vars, strategy, tasks, completed_tasks, task_dependencies, reverse_dependencies,
                   completions, cur, attempt, result, log, sleeps, metric,
                   adds>>

\* the for loop is exhausted: back to the while condition
ForEnd ==
    /\ pc = "for"
    /\ ready = <<>>
    /\ pc' = "loop"
    /\ ClearLocals
    /\ UNCHANGED <<collaborator_vars, strategy, tasks, completed_tasks, task_dependencies, reverse_dependencies,
                   completions, ready, adds>>

\* "if task.agent_id not in self.agents: logger.error(...); continue"
ForUnknownAgent ==
    /\ pc = "for"
    /\ ready # <<>>
    /\ Head(ready).agent_id \notin agents
    /\ ready' = Tail(ready)
    /\ ClearLocals
    /\ UNCHANGED <<collaborator_vars, strategy, tasks, completed_tasks, task_dependencies, reverse_dependencies,
                   completions, pc, adds>>

\* ForExecute as a dispatch that does not wait for the running task: the next
\* ready task is started while the current one sleeps in its backoff
ForExecute_DuringBackoff ==
    /\ pc \in {"for", "backoff"}
    /\ ready # <<>>
    /\ Head(ready).agent_id \in agents
    /\ cur' = Head(ready)
    /\ ready' = Tail(ready)
    /\ attempt' = 1
    /\ result' = NoReturn
    /\ log' = <<>>
    /\ sleeps' = <<>>
    /\ metric' = NoMetric
    /\ pc' = "run"
    /\ UNCHANGED <<collaborator_vars, strategy, tasks, completed_tasks, task_dependencies, reverse_dependencies,
                   completions, adds>>

\* the call _execute_task_with_retry(task.agent_id, task_obj), up to the
\* await of agent.run_task
ForExecute ==
    /\ pc = "for"
    /\ ready # <<>>
    /\ Head(ready).agent_id \in agents
    /\ cur' = Head(ready)
    /\ ready' = Tail(ready)
    /\ attempt' = 1
    /\ result' = NoReturn
    /\ log' = <<>>
    /\ sleeps' = <<>>
    /\ metric' = NoMetric
    /\ pc' = "run"
    /\ UNCHANGED <<collaborator_vars, strategy, tasks, completed_tasks, task_dependencies, reverse_dependencies,
                   completions, adds>>

\* --------------------------------------------------- _handle_pm_task_results
\* task dicts a PM result carries in details["tasks"]
NewTaskDicts == [task_id : TaskIds, agent_id : AgentChoices, depends_on : DepLists]

\* the details["tasks"] lists of this model: empty or one task dict
PmTaskLists == {<<>>} \cup {<<d>> : d \in NewTaskDicts}

\* the body of the loop of _handle_pm_task_results for one task dict
PmInsert(g, d) ==
    [tasks |-> DictSet(g.tasks, TaskDependency(d.task_id, d.agent_id, d.depends_on)),
     task_dependencies |-> MapSet(g.task_dependencies, d.task_id, d.depends_on),
     reverse_dependencies |-> AddReverse(g.reverse_dependencies, d.depends_on, d.task_id)]

RECURSIVE _handle_pm_task_results(_, _)
\* AgentOrchestrator._handle_pm_task_results on the three maps g
_handle_pm_task_results(g, tasks_list) ==
    IF tasks_list = <<>> THEN g
    ELSE _handle_pm_task_results(PmInsert(g, Head(tasks_list)), Tail(tasks_list))

\* ------------------------------------------------- _execute_task_with_retry
\* feedback_system.record_task_completion(TaskCompletion(task_id=..., success=...)),
\* up to its first await: the completion is saved
record_task_completion(task_id, success) ==
    [completions EXCEPT ![<<task_id, success>>] = @ + 1]

\* the arguments of a record_metric call that the model keeps
Metric(status, attempt_no) == [status |-> status, retries_attempted |-> attempt_no - 1]

\* the dict _execute_task_with_retry returns on a terminal error
ErrorResult(error_type) == [status |-> "error", error_type |-> error_type]

\* the dict an agent returned, as process_tasks stores it in task.result
AgentResult(status) == [status |-> status, error_type |-> "none"]

\* task.result of the except branch of process_tasks
ProcessingError == ErrorResult("processing_error")

\* process_tasks after _execute_task_with_retry returned res: status and
\* result are set, PM tasks are inserted, the task moves to completed_tasks,
\* and the milestone update is awaited when the task names a known milestone
Finish(res, new_tasks, lg, m) ==
    LET task == [cur EXCEPT !.status = IF res.status = "success" THEN "completed" ELSE "failed",
                            !.result = res]
        g0 == [tasks |-> tasks, task_dependencies |-> task_dependencies,
               reverse_dependencies |-> reverse_dependencies]
        g1 == IF cur.agent_id = "pm_agent" THEN _handle_pm_task_results(g0, new_tasks) ELSE g0
    IN /\ tasks' = DictPop(g1.tasks, cur.task_id)
       /\ task_dependencies' = g1.task_dependencies
       /\ reverse_dependencies' = g1.reverse_dependencies
       /\ completed_tasks' = MapSet(completed_tasks, cur.task_id, task)
       /\ metric' = m
       /\ log' = lg
       /\ \E has_milestone \in BOOLEAN :
            pc' = IF has_milestone THEN "milestone" ELSE "for"
       /\ UNCHANGED <<cur, attempt, result, sleeps>>

\* the except branch of process_tasks: the task is marked failed, popped from
\* self.tasks (KeyError when it is no longer there), stored in completed_tasks
\* and a failed TaskCompletion is handed to the feedback system
ExceptBranch(task) ==
    LET failed == [task EXCEPT !.status = "failed", !.result = ProcessingError]
    IN /\ completed_tasks' = MapSet(completed_tasks, task.task_id, failed)
       /\ IF task.task_id \in TaskKeys
            THEN /\ tasks' = DictPop(tasks, task.task_id)
                 /\ completions' = record_task_completion(task.task_id, FALSE)
                 /\ pc' = "record_failed"
            ELSE /\ pc' = "crashed"
                 /\ UNCHANGED <<tasks, completions>>

\* OnException as an except branch that re-raises instead of returning an
\* error dict: the exception reaches the except branch of process_tasks
OnException_Reraise(e, lg) ==
    /\ ExceptBranch(cur)
    /\ log' = lg
    /\ UNCHANGED <<collaborator_vars, strategy, task_dependencies, reverse_dependencies, ready, cur,
                   attempt, result, sleeps, metric, adds>>

\* the except branch of _execute_task_with_retry for exception type e
OnException(e, lg) ==
    LET retry_count == _get_retry_count(e, cur.agent_id)
        retry_strategy == _get_retry_strategy(cur.agent_id)
        Terminal(error_type) ==
            /\ Finish(ErrorResult(error_type), <<>>, lg, Metric("FAIL", attempt))
            /\ UNCHANGED <<collaborator_vars, strategy, completions, ready, adds>>
        decision == RetryDecision(attempt, retry_count)
    IN IF decision = "fatal"
         THEN Terminal("fatal")
       ELSE IF decision = "retry"
         THEN /\ sleeps' = Append(sleeps, calculate_delay(retry_strategy, attempt))
              /\ log' = lg
              /\ pc' = "backoff"
              /\ UNCHANGED <<collaborator_vars, strategy, tasks, completed_tasks, task_dependencies,
                             reverse_dependencies, completions, ready, cur, attempt,
                             result, metric, adds>>
       ELSE Terminal("max_retries_exceeded")

\* agent.run_task returns a dict: the PASS metric is recorded and the
\* success TaskCompletion is handed to feedback_system.record_task_completion
AgentReturns(status, new_tasks) ==
    /\ pc = "run"
    /\ new_tasks # <<>> => cur.agent_id = "pm_agent"
    /\ adds + Len(new_tasks) <= MaxAdds
    /\ result' = [status |-> status, tasks |-> new_tasks]
    /\ log' = Append(log, status)
    /\ completions' = record_task_completion(cur.task_id, TRUE)
    /\ adds' = adds + Len(new_tasks)
    /\ metric' = Metric("PASS", attempt)
    /\ pc' = "record"
    /\ UNCHANGED <<collaborator_vars, strategy, tasks, completed_tasks, task_dependencies, reverse_dependencies,
                   ready, cur, attempt, sleeps>>

\* agent.run_task raises e
AgentRaises(e) ==
    /\ pc = "run"
    /\ OnException(e, Append(log, e))

\* record_task_completion returns: _execute_task_with_retry returns result
RecordReturns ==
    /\ pc = "record"
    /\ Finish(AgentResult(result.status), result.tasks, log, metric)
    /\ UNCHANGED <<collaborator_vars, strategy, completions, ready, adds>>

\* record_task_completion raises e inside the try of _execute_task_with_retry
RecordRaises(e) ==
    /\ pc = "record"
    /\ OnException(e, log)

\* exception type of a failed notification delivery: the feedback system is
\* built with slack_bot = None, so send_message raises AttributeError
NotificationErrors == {"AttributeError"}

\* record_task_completion raises e from _check_milestone_status, whose
\* _send_milestone_update / _send_delay_notification failed to deliver
NotificationRaises(e) ==
    /\ pc = "record"
    /\ OnException(e, log)

\* asyncio.sleep(delay) returns: the recursive call with attempt + 1
BackoffWake ==
    /\ pc = "backoff"
    /\ attempt' = attempt + 1
    /\ pc' = "run"
    /\ UNCHANGED <<collaborator_vars, strategy, tasks, completed_tasks, task_dependencies, reverse_dependencies,
                   completions, ready, cur, result, log, sleeps, metric,
                   adds>>

\* _update_milestone_progress returns
MilestoneReturns ==
    /\ pc = "milestone"
    /\ pc' = "for"
    /\ UNCHANGED <<collaborator_vars, strategy, tasks, completed_tasks, task_dependencies, reverse_dependencies,
                   completions, ready, cur, attempt, result, log, sleeps, metric,
                   adds>>

\* _update_milestone_progress raises FatalError: the except branch runs on
\* the task object that is already in completed_tasks
MilestoneRaises ==
    /\ pc = "milestone"
    /\ ExceptBranch(completed_tasks[cur.task_id])
    /\ UNCHANGED <<collaborator_vars, strategy, task_dependencies, reverse_dependencies, ready, cur, attempt,
                   result, log, sleeps, metric, adds>>

\* record_task_completion of the except branch returns
RecordFailedReturns ==
    /\ pc = "record_failed"
    /\ pc' = "for"
    /\ UNCHANGED <<collaborator_vars, strategy, tasks, completed_tasks, task_dependencies, reverse_dependencies,
                   completions, ready, cur, attempt, result, log, sleeps, metric,
                   adds>>

\* record_task_completion of the except branch raises: process_tasks raises
RecordFailedRaises ==
    /\ pc = "record_failed"
    /\ pc' = "crashed"
    /\ UNCHANGED <<collaborator_vars, strategy, tasks, completed_tasks, task_dependencies, reverse_dependencies,
                   completions, ready, cur, attempt, result, log, sleeps,
                   metric, adds>>

\* exception types record_task_completion raises in this model
FeedbackErrors == {"ZeroDivisionError", "PermissionError"}

Next ==
    \/ \E task_id \in TaskIds, agent_id \in AgentChoices, dependencies \in OptionalDeps :
            add_task(task_id, agent_id, dependencies)
    \/ process_tasks
    \/ LoopExit
    \/ LoopWait
    \/ WaitWake
    \/ LoopDispatch
    \/ ForEnd
    \/ ForUnknownAgent
    \/ ForExecute
    \/ \E status \in {"success", "error"}, new_tasks \in PmTaskLists :
            AgentReturns(status, new_tasks)
    \/ \E e \in ErrorTypes : AgentRaises(e)
    \/ RecordReturns
    \/ \E e \in FeedbackErrors : RecordRaises(e)
    \/ \E e \in NotificationErrors : NotificationRaises(e)
    \/ BackoffWake
    \/ MilestoneReturns
    \/ MilestoneRaises
    \/ RecordFailedReturns
    \/ RecordFailedRaises

Spec == Init /\ [][Next]_vars

\* ------------------------------------------------------------------ claims
\* an agent call, its recording or a backoff sleep for cur is under way
InFlight == pc \in {"run", "record", "backoff"}

\* _execute_task_with_retry has returned for cur and the for loop has not moved on
Finished == pc \in {"for", "milestone", "record_failed", "crashed"} /\ cur # NoTask

\* ids of the tasks that ended failed
FailedIds == {t \in DOMAIN completed_tasks : completed_tasks[t].status = "failed"}

RECURSIVE DependsOnFailed(_, _)
\* task reaches a failed task through at most n + 1 depends_on edges
DependsOnFailed(task, n) ==
    \E d \in task.depends_on :
        \/ d \in FailedIds
        \/ /\ n > 0
           /\ \E i \in DOMAIN tasks :
                tasks[i].task_id = d /\ DependsOnFailed(tasks[i], n - 1)

\* C1: the agent is invoked for a task only when every task in its depends_on
\* has ended with status completed; a dependency that ended failed does not
\* make the task ready.
C1_DependencyOrdering ==
    InFlight =>
        \A d \in cur.depends_on :
            d \in DOMAIN completed_tasks /\ completed_tasks[d].status = "completed"

\* C2: a task that depends, directly or through a chain, on a task that ended
\* failed is Blocked, is not in the ready set and its agent is never invoked.
C2_BlockedPropagation ==
    /\ \A i \in DOMAIN tasks :
            DependsOnFailed(tasks[i], Cardinality(TaskIds)) =>
                /\ tasks[i].status = "blocked"
                /\ \A j \in DOMAIN _get_ready_tasks : _get_ready_tasks[j] # tasks[i]
    /\ InFlight => cur.depends_on \cap FailedIds = {}

\* C3: once the dispatch loop is done with a task, exactly one TaskCompletion
\* has been recorded for its task_id, with success = TRUE iff the task ended
\* completed, and none with the other value of success.
C3_ExactlyOnceRecord ==
    pc \in {"for", "loop", "wait", "done"} =>
        \A t \in DOMAIN completed_tasks :
            LET ok == completed_tasks[t].status = "completed"
            IN /\ completions[<<t, ok>>] = 1
               /\ completions[<<t, ~ok>>] = 0

\* every agent call made for cur raised TransientError
AllTransient == log # <<>> /\ \A i \in DOMAIN log : log[i] = "TransientError"

C6_TransientRecovery ==
    (/\ Finished
     /\ log # <<>>
     /\ log[Len(log)] = "success"
     /\ \A i \in 1 .. Len(log) - 1 : log[i] = "TransientError") =>
        /\ attempt = Len(log)
        /\ metric = [status |-> "PASS", retries_attempted |-> Len(log) - 1]
        /\ completed_tasks[cur.task_id].status = "completed"
        /\ completed_tasks[cur.task_id].result = AgentResult("success")

\* the ready set is empty, nothing is in flight and a task remains
Deadlocked == tasks # <<>> /\ _get_ready_tasks = <<>> /\ ~InFlight

\* C7: when the loop finds the ready set empty with nothing in flight and a
\* task remaining, it stops by raising a Deadlock error.
C7_DeadlockDetection ==
    [][(pc = "loop" /\ Deadlocked) => pc' = "crashed"]_vars

\* C8: when the for loop meets a ready task whose agent_id is not registered,
\* the task moves to completed_tasks with status failed and leaves self.tasks.
C8_RoutingFailureFatal ==
    [][(/\ pc = "for"
        /\ ready # <<>>
        /\ Head(ready).agent_id \notin agents
        /\ ready' = Tail(ready)) =>
            LET t == Head(ready).task_id
            IN /\ t \notin {tasks'[i].task_id : i \in DOMAIN tasks'}
               /\ t \in DOMAIN completed_tasks'
               /\ completed_tasks'[t].status = "failed"]_vars

\* C9: when process_tasks returns, self.tasks is empty and every task id that
\* was ever inserted (before or during the run) is in completed_tasks with
\* status completed or failed.
C9_DrainedOnReturn ==
    pc = "done" =>
        /\ tasks = <<>>
        /\ \A t \in DOMAIN task_dependencies :
            /\ t \in DOMAIN completed_tasks
            /\ completed_tasks[t].status \in {"completed", "failed"}

C9_Witness ==
    /\ pc = "done"
    /\ DOMAIN completed_tasks = TaskIds
    /\ adds = MaxAdds

\* C10: add_task with a task_id that is already in self.tasks or in
\* completed_tasks leaves the task maps and the dependency maps unchanged.
C10_DuplicateRejected ==
    [][\A task_id \in TaskKeys \cup DOMAIN completed_tasks :
            (\E agent_id \in AgentChoices, dependencies \in OptionalDeps :
                add_task(task_id, agent_id, dependencies)) =>
            UNCHANGED <<tasks, completed_tasks, task_dependencies,
                        reverse_dependencies>>]_vars

RECURSIVE Reaches(_, _, _)
\* task id a reaches task id b through at most n + 1 edges of task_dependencies
Reaches(a, b, n) ==
    /\ a \in DOMAIN task_dependencies
    /\ \E d \in task_dependencies[a] :
            d = b \/ (n > 0 /\ Reaches(d, b, n - 1))

\* C11: in every reachable state the depends_on relation over all tasks is
\* acyclic: no task id reaches itself through dependency edges (a task that
\* depends on itself included).
C11_AcyclicityEnforced ==
    \A t \in DOMAIN task_dependencies : ~Reaches(t, t, Cardinality(TaskIds))

\* ------------------------------------------------------ ready-set ordering
\* largest value of the priority entry of a task's metadata
MaxPriority == 2

\* metadata dicts handed to add_task: the priority entry
Metadatas == {[priority |-> p] : p \in 1 .. MaxPriority}

\* ids of tasks that finished before the tasks of self.tasks were added
DoneIds == {"t0"}

\* TaskDependency.__init__ with the metadata argument kept
TaskDependencyWithMetadata(task_id, agent_id, depends_on, metadata) ==
    [task_id |-> task_id, agent_id |-> agent_id, depends_on |-> depends_on,
     metadata |-> metadata, status |-> "pending", result |-> NoResult]

\* the tasks add_task can have stored with these arguments
PendingTasks ==
    {TaskDependencyWithMetadata(t, a, d, m) :
        t \in TaskIds, a \in AgentChoices,
        d \in {l \in SUBSET (TaskIds \cup DoneIds) : Cardinality(l) <= 1},
        m \in Metadatas}

\* a task of DoneIds as process_tasks left it in completed_tasks
DoneTasks ==
    {[TaskDependencyWithMetadata(t, "worker", {}, m) EXCEPT !.status = s, !.result = r] :
        t \in DoneIds, m \in Metadatas,
        <<s, r>> \in {<<"completed", AgentResult("success")>>,
                      <<"failed", ErrorResult("fatal")>>}}

\* process_tasks at the head of its while loop, after the tasks of DoneIds
\* ended and two add_task calls with different ids stored their tasks
InitReady ==
    /\ tasks \in {<<a, b>> : <<a, b>> \in {p \in PendingTasks \X PendingTasks :
                                            p[1].task_id # p[2].task_id}}
    /\ completed_tasks \in {[t \in DoneIds |-> d] : d \in DoneTasks}
    /\ task_dependencies = [t \in TaskKeys |->
            (CHOOSE x \in {tasks[1], tasks[2]} : x.task_id = t).depends_on]
    /\ reverse_dependencies = <<>>
    /\ completions = [c \in TaskIds \X BOOLEAN |-> 0]
    /\ pc = "loop"
    /\ ready = <<>>
    /\ cur = NoTask
    /\ attempt = 0
    /\ result = NoReturn
    /\ log = <<>>
    /\ sleeps = <<>>
    /\ metric = NoMetric
    /\ adds = MaxAdds
    /\ strategy = default_retry_strategy
    /\ IdleCollaborators

\* one pass of the while loop of process_tasks up to the agent call
NextReady ==
    \/ LoopWait
    \/ LoopDispatch
    \/ ForUnknownAgent
    \/ ForExecute
    \/ ForEnd

SpecReady == InitReady /\ [][NextReady]_vars

\* C12: the ready set holds exactly the pending tasks whose every dependency
\* ended completed, it is ordered by descending priority (insertion order
\* among equals), and the task being dispatched has a priority at least that
\* of every ready task still waiting in the list.
C12_ReadySetOrdering ==
    /\ _get_ready_tasks =
            SelectSeq(tasks, LAMBDA task :
                /\ task.status = "pending"
                /\ \A d \in task.depends_on :
                        /\ d \in DOMAIN completed_tasks
                        /\ completed_tasks[d].status = "completed")
    /\ \A i, j \in DOMAIN _get_ready_tasks :
            i < j => _get_ready_tasks[i].metadata.priority >= _get_ready_tasks[j].metadata.priority
    /\ pc = "run" =>
            \A i \in DOMAIN ready : cur.metadata.priority >= ready[i].metadata.priority

\* ------------------------------------------------------ serial dispatch
\* this step enters _execute_task_with_retry for a task (its first attempt)
StartsTask == pc' = "run" /\ attempt' = 1 /\ <<pc, attempt>> # <<pc', attempt'>>

\* C13: a task's first attempt starts only in a state where no task that
\* targets the same agent is in flight (being executed, being recorded or
\* sleeping in backoff), so at most one task per agent_id is in flight.
C13_PerAgentSerialization ==
    [][StartsTask => ~(InFlight /\ cur.agent_id = cur'.agent_id)]_vars

C13_Witness ==
    /\ pc = "backoff"
    /\ ready # <<>>
    /\ Head(ready).agent_id = cur.agent_id

\* a ready task for an agent other than the one serving cur waits in ready_tasks
OtherAgentReady ==
    /\ ready # <<>>
    /\ Head(ready).agent_id \in agents \ {cur.agent_id}

\* C14: while one task waits for its agent's call to return or sleeps in its
\* retry backoff, a ready task for another agent can be started: the step
\* that enters _execute_task_with_retry for it is enabled.
C14_CrossAgentConcurrency ==
    (pc \in {"run", "backoff"} /\ OtherAgentReady) => ENABLED ForExecute

\* C15: when the loop computes the ready set, a TaskCompletion has been
\* recorded for every dependency of every task in that set (and no milestone
\* update of a finished task is still pending: the loop is at its head).
C15_UpdateBeforeReadiness ==
    pc = "loop" =>
        \A i \in DOMAIN _get_ready_tasks :
            \A d \in _get_ready_tasks[i].depends_on :
                completions[<<d, TRUE>>] + completions[<<d, FALSE>>] >= 1

\* -------------------------------------------------------- backoff delays
\* number of consecutive attempts whose delays are computed
MaxAttempt == 7

\* strategy names: the three the code knows and one it does not
StrategyNames == {"exponential", "linear", "fixed", "polynomial"}

\* RetryStrategy objects: __init__ stores its arguments unchecked
Strategies ==
    [max_retries : {3}, base_delay : {-1, 0, 1, 3, 5}, max_delay : {4, 32},
     strategy : StrategyNames]

\* _execute_task_with_retry at its first failed attempt, for any strategy
InitDelay ==
    /\ strategy \in Strategies
    /\ attempt = 1
    /\ sleeps = <<>>
    /\ tasks = <<>>
    /\ completed_tasks = <<>>
    /\ task_dependencies = <<>>
    /\ reverse_dependencies = <<>>
    /\ completions = [c \in TaskIds \X BOOLEAN |-> 0]
    /\ pc = "backoff"
    /\ ready = <<>>
    /\ cur = NoTask
    /\ result = NoReturn
    /\ log = <<>>
    /\ metric = NoMetric
    /\ adds = 0
    /\ IdleCollaborators

\* "delay = strategy.calculate_delay(attempt)", the sleep and the recursive
\* call with attempt + 1, the delay being kept in sleeps
NextDelay ==
    /\ attempt <= MaxAttempt
    /\ sleeps' = Append(sleeps, calculate_delay(strategy, attempt))
    /\ attempt' = attempt + 1
    /\ UNCHANGED <<collaborator_vars, strategy, tasks, completed_tasks, task_dependencies,
                   reverse_dependencies, completions, pc, ready, cur, result, log,
                   metric, adds>>

SpecDelay == InitDelay /\ [][NextDelay]_vars

RECURSIVE Pow2(_)
\* 2 to the power n
Pow2(n) == IF n = 0 THEN 1 ELSE 2 * Pow2(n - 1)

\* the delay the backoff formula gives strategy s at attempt i
FormulaDelay(s, i) ==
    LET capped(x) == IF x <= s.max_delay THEN x ELSE s.max_delay
    IN CASE s.strategy = "linear" -> capped(s.base_delay * i)
         [] s.strategy = "fixed" -> s.base_delay
         [] OTHER -> capped(s.base_delay * Pow2(i - 1))

\* C16: for every attempt i >= 1 the computed delay is
\* min(base_delay * 2^(i-1), max_delay) under exponential,
\* min(base_delay * i, max_delay) under linear, base_delay under fixed, and
\* the exponential value under an unknown strategy name.
C16_BackoffFormula ==
    \A i \in DOMAIN sleeps : sleeps[i] = FormulaDelay(strategy, i)

C16_Witness ==
    /\ Len(sleeps) = MaxAttempt
    /\ strategy.strategy = "polynomial"
    /\ strategy.base_delay = 3
    /\ sleeps[1] = 3
    /\ sleeps[2] = 6
    /\ sleeps[MaxAttempt] = strategy.max_delay

\* the delays never decrease and stay at max_delay once they reached it
NonDecreasingToCap ==
    \A i \in 1 .. Len(sleeps) - 1 :
        /\ sleeps[i + 1] >= sleeps[i]
        /\ sleeps[i] = strategy.max_delay => sleeps[i + 1] = strategy.max_delay

\* the delays are all the same
ConstantDelay == \A i, j \in DOMAIN sleeps : sleeps[i] = sleeps[j]

\* C17 as stated: under exponential and linear the delays never decrease and
\* stay at max_delay once reached, for every RetryStrategy; under fixed the
\* delay is constant.
C17_BackoffMonotonicity ==
    /\ strategy.strategy \in {"exponential", "linear"} => NonDecreasingToCap
    /\ strategy.strategy = "fixed" => ConstantDelay

\* C17 amended: the same for every RetryStrategy whose base_delay is >= 0.
C17_BackoffMonotonicity_NonNegativeBase ==
    /\ (strategy.strategy \in {"exponential", "linear"} /\ strategy.base_delay >= 0)
            => NonDecreasingToCap
    /\ strategy.strategy = "fixed" => ConstantDelay

C17_Witness ==
    /\ Len(sleeps) = MaxAttempt
    /\ strategy.strategy = "linear"
    /\ strategy.base_delay = 1
    /\ strategy.max_delay = 4
    /\ sleeps[3] < sleeps[4]
    /\ sleeps[4] = sleeps[MaxAttempt]

\* ------------------------------------------------- milestones, notifications
\* C18: whatever the milestone update awaited for a finished task does
\* (return or fail to persist), the for loop goes on and the task keeps the
\* terminal status and result it had.
C18_MilestoneFailureNonFatal ==
    [][(pc = "milestone" /\ pc' # "milestone") =>
            /\ pc' = "for"
            /\ completed_tasks'[cur.task_id] = completed_tasks[cur.task_id]]_vars

\* C19: a notification that fails to be delivered while a task's completion
\* is being recorded is only logged: the task ends with the outcome its agent
\* returned, the agent is not called again and the for loop goes on.
C19_NotificationsBestEffort ==
    [][(\E e \in NotificationErrors : NotificationRaises(e)) =>
            /\ pc' \in {"for", "milestone"}
            /\ completed_tasks'[cur.task_id].status =
                    (IF result.status = "success" THEN "completed" ELSE "failed")
            /\ completed_tasks'[cur.task_id].result = AgentResult(result.status)]_vars

MaxTime == 3

MilestoneIds == {"m1"}

\* metadata.get("milestone_id") of a task that belongs to no milestone
NoMilestone == "none"

\* metadata dicts handed to create_task: the milestone_id entry, "m9" being
\* an id self.milestones does not hold
MilestoneMetadatas == {[milestone_id |-> m] : m \in MilestoneIds \cup {"m9", NoMilestone}}

\* a float as the exact quotient <<numerator, denominator>>, denominator > 0
RatLess(a, b) == a[1] * b[2] < b[1] * a[2]

RatEq(a, b) == a[1] * b[2] = b[1] * a[2]

\* "progress = (completed_tasks / total_tasks * 100) if total_tasks > 0 else 0"
milestone_progress(milestone) ==
    LET total_tasks == Len(milestone.tasks)
        completed == Cardinality({i \in DOMAIN milestone.tasks :
                                    milestone.tasks[i].completed})
    IN IF total_tasks > 0 THEN <<completed * 100, total_tasks>> ELSE <<0, 1>>

\* AgentOrchestrator._handle_milestone_delay: the status assignment; the
\* delay_reason argument only goes into the notification
_handle_milestone_delay(milestone, delay_reason) ==
    [milestone EXCEPT !.status = "delayed"]

\* AgentOrchestrator._update_milestone_progress at time t on the milestone
\* dict ms; delay_fails: _handle_milestone_delay raises FatalError after its
\* status assignment, which ends the update before the status is recomputed
_update_milestone_progress(ms, milestone_id, t, delay_fails) ==
    IF milestone_id \notin DOMAIN ms THEN ms
    ELSE
    LET milestone == ms[milestone_id]
        progress == milestone_progress(milestone)
        late == RatLess(progress, <<50, 1>>) /\ milestone.estimated_completion < t
        delayed == IF late
                     THEN _handle_milestone_delay(milestone,
                                                  "Tasks taking longer than estimated")
                     ELSE milestone
        updated == [delayed EXCEPT
                        !.status = IF RatEq(progress, <<100, 1>>) THEN "completed"
                                   ELSE IF RatLess(<<0, 1>>, progress) THEN "in_progress"
                                   ELSE "pending",
                        !.actual_completion = IF RatEq(progress, <<100, 1>>)
                                                THEN <<t>> ELSE @,
                        !.progress = progress]
    IN [ms EXCEPT ![milestone_id] = IF late /\ delay_fails THEN delayed ELSE updated]

\* MilestoneStatus(**milestone) for a milestone with the member list member_tasks
MilestoneStatus(member_tasks, estimated_completion) ==
    [tasks |-> member_tasks, estimated_completion |-> estimated_completion,
     actual_completion |-> None, status |-> "pending", progress |-> <<0, 1>>,
     delay_reason |-> None]

\* the milestones initialize can load: each as an update at time 0 left it
LoadedMilestones ==
    {_update_milestone_progress([m \in MilestoneIds |-> MilestoneStatus(l, c)],
                                "m1", 0, FALSE)["m1"] :
        l \in {<<>>} \cup {<<[task_id |-> t, completed |-> b]>> :
                                t \in DoneIds, b \in BOOLEAN},
        c \in {0, 2}}

\* AgentOrchestrator.create_task for a registered agent
create_task(task_id, agent_id, metadata, delay_fails) ==
    /\ agent_id \in agents
    /\ adds < MaxAdds
    /\ adds' = adds + 1
    /\ tasks' = DictSet(tasks, TaskDependencyWithMetadata(task_id, agent_id, {}, metadata))
    /\ IF metadata.milestone_id # NoMilestone /\ metadata.milestone_id \in DOMAIN milestones
         THEN milestones' = _update_milestone_progress(
                [milestones EXCEPT ![metadata.milestone_id].tasks =
                    Append(@, [task_id |-> task_id, completed |-> FALSE])],
                metadata.milestone_id, now, delay_fails)
         ELSE UNCHANGED milestones
    /\ UNCHANGED <<completed_tasks, task_dependencies, reverse_dependencies, completions,
                   pc, ready, cur, attempt, result, log, sleeps, metric, strategy,
                   now, task_queue, agent_throughput, simulation, network, _message_cache, ret>>

\* process_tasks from "task.status = ..." to its milestone update, for a task
\* of self.tasks whose agent call returned a result with this status
TaskFinished(task_id, status, delay_fails) ==
    /\ \E i \in DOMAIN tasks :
        /\ tasks[i].task_id = task_id
        /\ completed_tasks' = MapSet(completed_tasks, task_id,
                [tasks[i] EXCEPT !.status = status,
                                 !.result = IF status = "completed"
                                              THEN AgentResult("success")
                                              ELSE ErrorResult("fatal")])
        /\ milestones' = IF tasks[i].metadata.milestone_id # NoMilestone
                           THEN _update_milestone_progress(
                                    milestones, tasks[i].metadata.milestone_id,
                                    now, delay_fails)
                           ELSE milestones
    /\ tasks' = DictPop(tasks, task_id)
    /\ UNCHANGED <<task_dependencies, reverse_dependencies, completions,
                   pc, ready, cur, attempt, result, log, sleeps, metric, adds, strategy,
                   now, task_queue, agent_throughput, simulation, network, _message_cache, ret>>

\* time passes between two calls
Tick ==
    /\ now < MaxTime
    /\ now' = now + 1
    /\ UNCHANGED <<scheduler_vars, milestones, task_queue, agent_throughput,
                   simulation, network, _message_cache, ret>>

\* the orchestrator after initialize loaded one milestone
InitMilestone ==
    /\ IdleScheduler
    /\ milestones \in {[m \in MilestoneIds |-> l] : l \in LoadedMilestones}
    /\ now = 0
    /\ task_queue = <<>>
    /\ agent_throughput = <<>>
    /\ simulation = NoSimulation
    /\ network = {}
    /\ _message_cache = <<>>
    /\ ret = None

NextMilestone ==
    \/ \E task_id \in TaskIds, agent_id \in agents, metadata \in MilestoneMetadatas,
          delay_fails \in BOOLEAN :
            create_task(task_id, agent_id, metadata, delay_fails)
    \/ \E task_id \in TaskIds, status \in {"completed", "failed"}, delay_fails \in BOOLEAN :
            TaskFinished(task_id, status, delay_fails)
    \/ Tick

SpecMilestone == InitMilestone /\ [][NextMilestone]_vars

\* a step in which _update_milestone_progress runs for milestone m
MilestoneUpdateRuns(m) ==
    \/ \E task_id \in TaskIds, agent_id \in agents, delay_fails \in BOOLEAN :
            create_task(task_id, agent_id, [milestone_id |-> m], delay_fails)
    \/ \E task_id \in TaskIds, status \in {"completed", "failed"}, delay_fails \in BOOLEAN :
            /\ \E i \in DOMAIN tasks : /\ tasks[i].task_id = task_id
                                       /\ tasks[i].metadata.milestone_id = m
            /\ TaskFinished(task_id, status, delay_fails)

\* C21: when a milestone update runs with the milestone's progress below 50%
\* and its estimated completion time in the past, the milestone's status after
\* the update is delayed and its delay_reason is non-empty.
C21_DelayDetection ==
    [][\A m \in MilestoneIds :
        (/\ MilestoneUpdateRuns(m)
         /\ RatLess(milestone_progress(milestones'[m]), <<50, 1>>)
         /\ milestones[m].estimated_completion < now)
        => /\ milestones'[m].status = "delayed"
           /\ milestones'[m].delay_reason # None]_vars

\* the status changes the milestone state machine allows
MilestoneTransitions ==
    {<<"pending", "in_progress">>, <<"in_progress", "delayed">>,
     <<"delayed", "in_progress">>, <<"in_progress", "completed">>,
     <<"delayed", "completed">>}

AllMembersCompleted(ms, done) ==
    /\ ms.tasks # <<>>
    /\ \A i \in DOMAIN ms.tasks :
        \/ ms.tasks[i].completed
        \/ /\ ms.tasks[i].task_id \in DOMAIN done
           /\ done[ms.tasks[i].task_id].status = "completed"

\* C23: while the member list of a milestone does not change its progress never
\* decreases from one update to the next, and the update triggered by the
\* completion of its last member task leaves the progress at 100%.
C23_ProgressMonotonicity ==
    [][\A m \in MilestoneIds :
        /\ milestones'[m].tasks = milestones[m].tasks
            => ~RatLess(milestones'[m].progress, milestones[m].progress)
        /\ (/\ \E task_id \in TaskIds, delay_fails \in BOOLEAN :
                    TaskFinished(task_id, "completed", delay_fails)
            /\ ~AllMembersCompleted(milestones[m], completed_tasks)
            /\ AllMembersCompleted(milestones'[m], completed_tasks'))
            => RatEq(milestones'[m].progress, <<100, 1>>)]_vars

\* ------------------------------------------------------ expected progress
RECURSIVE GCD(_, _)
\* greatest common divisor of two naturals, not both 0
GCD(a, b) == IF b = 0 THEN a ELSE GCD(b, a % b)

\* the float n / d for d # 0, as a quotient in lowest terms with a positive
\* denominator
RatDiv(n, d) ==
    LET g == GCD(IF n < 0 THEN -n ELSE n, IF d < 0 THEN -d ELSE d)
    IN IF d < 0 THEN <<(-n) \div g, (-d) \div g>> ELSE <<n \div g, d \div g>>

RatMin(a, b) == IF RatLess(b, a) THEN b ELSE a

RatMax(a, b) == IF RatLess(a, b) THEN b ELSE a

\* no call of _calculate_expected_progress made yet
NotCalled == [outcome |-> "not called", value |-> <<0, 1>>, current_time |-> 0]

\* FeedbackSystem._calculate_expected_progress with datetime.now() = current_time:
\* the value it returns or the error the float division raises
_calculate_expected_progress(milestone, current_time) ==
    LET start_time == milestone.start_time
        expected_end == milestone.estimated_completion
        total_duration == expected_end - start_time
        elapsed_duration == current_time - start_time
    IN IF total_duration = 0
         THEN [outcome |-> "ZeroDivisionError", value |-> <<0, 1>>,
               current_time |-> current_time]
         ELSE [outcome |-> "returned",
               value |-> RatMin(<<1, 1>>,
                                RatMax(<<0, 1>>, RatDiv(elapsed_duration, total_duration))),
               current_time |-> current_time]

\* the milestone dicts of milestones.json: start_time and estimated_completion
TimedMilestones ==
    {[start_time |-> s, estimated_completion |-> c] :
        <<s, c>> \in {p \in (0 .. MaxTime) \X (0 .. MaxTime) : p[1] <= p[2]}}

\* _check_milestone_status asks for the expected progress of the milestone
ExpectedProgress(milestone_id) ==
    /\ ret' = _calculate_expected_progress(milestones[milestone_id], now)
    /\ UNCHANGED <<scheduler_vars, milestones, now, task_queue, agent_throughput,
                   simulation, network, _message_cache>>

InitExpected ==
    /\ IdleScheduler
    /\ milestones \in {[m \in MilestoneIds |-> l] : l \in TimedMilestones}
    /\ now = 0
    /\ task_queue = <<>>
    /\ agent_throughput = <<>>
    /\ simulation = NoSimulation
    /\ network = {}
    /\ _message_cache = <<>>
    /\ ret = NotCalled

NextExpected ==
    \/ \E milestone_id \in MilestoneIds : ExpectedProgress(milestone_id)
    \/ Tick

SpecExpected == InitExpected /\ [][NextExpected]_vars

\* C24: for every milestone and every time now, expected progress is a value,
\* never an error, also when estimated_completion equals start_time; the value
\* is (now - start_time) / (estimated_completion - start_time) clamped into
\* [0, 1]: 0 when now <= start_time, 1 when now >= estimated_completion.
C24_ExpectedProgressClamped ==
    ret.outcome # "not called" =>
        \A m \in MilestoneIds :
            LET s == milestones[m].start_time
                c == milestones[m].estimated_completion
                t == ret.current_time
            IN /\ ret.outcome = "returned"
               /\ ~RatLess(ret.value, <<0, 1>>)
               /\ ~RatLess(<<1, 1>>, ret.value)
               /\ (t <= s /\ t < c) => RatEq(ret.value, <<0, 1>>)
               /\ (t >= c /\ t > s) => RatEq(ret.value, <<1, 1>>)
               /\ (s < t /\ t < c) => RatEq(ret.value, <<t - s, c - s>>)

\* ------------------------------------------------- TimelineEstimatorAgent
MaxComplexity == 3

QueueIds == {"A", "B", "C"}

\* task ids a task of the queue may depend on: the queues drawn are acyclic
\* because a task only depends on ids before its own in this order
Before(task_id) ==
    CASE task_id = "A" -> {}
      [] task_id = "B" -> {"A"}
      [] task_id = "C" -> {"A", "B"}

Priorities == {"HIGH", "MEDIUM", "LOW"}

\* sum and quotient of two floats kept as exact quotients
RatAdd(a, b) == RatDiv(a[1] * b[2] + b[1] * a[2], a[2] * b[2])

RatMul(a, b) == RatDiv(a[1] * b[1], a[2] * b[2])

RatQuot(a, b) == RatDiv(a[1] * b[2], a[2] * b[1])

\* the largest element of a non-empty set of floats
RatMaxOf(S) == CHOOSE x \in S : \A y \in S : ~RatLess(x, y)

\* the default entry of the agent_throughput defaultdict
default_throughput ==
    [tasks_per_minute |-> <<0, 1>>, average_duration |-> <<0, 1>>, total_tasks |-> 0]

\* self.agent_throughput[agent_id] on the dict throughputs
Throughput(throughputs, agent_id) ==
    IF agent_id \in DOMAIN throughputs THEN throughputs[agent_id] ELSE default_throughput

\* TimelineEstimatorAgent._estimate_task_duration
_estimate_task_duration(throughputs, task) ==
    LET throughput == Throughput(throughputs, task.agent_id)
        base_duration == IF RatLess(<<0, 1>>, throughput.tasks_per_minute)
                           THEN RatQuot(<<60, 1>>, throughput.tasks_per_minute)
                           ELSE <<5, 1>>
        complexity == task.metadata.complexity
    IN RatMul(base_duration, <<complexity, 5>>)

RECURSIVE earliest_completion(_, _, _)
\* the earliest_completion dict of _find_critical_path after the first n tasks
\* of queue q went through its loop
earliest_completion(throughputs, q, n) ==
    IF n = 0 THEN <<>>
    ELSE LET earlier == earliest_completion(throughputs, q, n - 1)
             task == q[n]
             duration == _estimate_task_duration(throughputs, task)
             max_dep_completion ==
                RatMaxOf({IF dep_id \in DOMAIN earlier THEN earlier[dep_id] ELSE <<0, 1>> :
                            dep_id \in task.depends_on})
         IN MapSet(earlier, task.task_id,
                   IF task.depends_on = {} THEN duration
                   ELSE RatAdd(max_dep_completion, duration))

\* TimelineEstimatorAgent._find_critical_path for a non-empty queue, with the
\* earliest_completion dict it computed on the way
_find_critical_path(throughputs, q) ==
    LET earliest == earliest_completion(throughputs, q, Len(q))
        max_completion == RatMaxOf({earliest[t] : t \in DOMAIN earliest})
        on_path == SelectSeq(q, LAMBDA task : RatEq(earliest[task.task_id], max_completion))
    IN [outcome |-> "returned",
        earliest_completion |-> earliest,
        critical_path |-> [i \in DOMAIN on_path |-> on_path[i].task_id]]

\* the tasks with id task_id a queue over the ids S can hold
QueueTasks(task_id, S) ==
    {TaskDependencyWithMetadata(task_id, agent_id, depends_on,
                                [complexity |-> c, priority |-> p]) :
        agent_id \in {"worker"}, depends_on \in SUBSET (Before(task_id) \cap S),
        c \in 1 .. MaxComplexity, p \in {"MEDIUM"}}

\* the non-empty acyclic task queues over QueueIds, in every order
TaskQueues ==
    UNION {{q \in [1 .. Cardinality(S) -> UNION {QueueTasks(t, S) : t \in S}] :
                \A i, j \in DOMAIN q : i # j => q[i].task_id # q[j].task_id} :
            S \in SUBSET QueueIds \ {{}}}

\* the agent_throughput dicts _load_historical_throughput can leave: no
\* history, or one completion of 2 minutes recorded for the worker
Throughputs ==
    {<<>>,
     [a \in {"worker"} |-> [tasks_per_minute |-> <<30, 1>>, average_duration |-> <<2, 1>>,
                            total_tasks |-> 1]]}

\* no call of _find_critical_path made yet
NoAnalysis == [outcome |-> "not called", earliest_completion |-> <<>>, critical_path |-> <<>>]

\* _analyze_task_queue: the critical path of the queue; reading
\* self.agent_throughput[agent_id] creates the default entry of an agent
AnalyzeTaskQueue ==
    /\ ret.outcome = "not called"
    /\ ret' = _find_critical_path(agent_throughput, task_queue)
    /\ agent_throughput' =
            [a \in DOMAIN agent_throughput \cup {task_queue[i].agent_id : i \in DOMAIN task_queue}
                |-> Throughput(agent_throughput, a)]
    /\ UNCHANGED <<scheduler_vars, milestones, now, task_queue, simulation, network, _message_cache>>

InitAnalysis ==
    /\ IdleScheduler
    /\ milestones = <<>>
    /\ now = 0
    /\ task_queue \in TaskQueues
    /\ agent_throughput \in Throughputs
    /\ simulation = NoSimulation
    /\ network = {}
    /\ _message_cache = <<>>
    /\ ret = NoAnalysis

NextAnalysis == AnalyzeTaskQueue

SpecAnalysis == InitAnalysis /\ [][NextAnalysis]_vars

\* C26: for every task t of an acyclic queue, in whatever order the tasks are
\* queued, earliest[t] is estimate_duration(t) when t has no dependencies and
\* estimate_duration(t) + max(earliest[d] for d in t.depends_on) otherwise.
C26_EarliestCompletion ==
    ret.outcome = "returned" =>
        \A i \in DOMAIN task_queue :
            LET t == task_queue[i]
                earliest == ret.earliest_completion
                duration == _estimate_task_duration(agent_throughput, t)
            IN RatEq(earliest[t.task_id],
                     IF t.depends_on = {} THEN duration
                     ELSE RatAdd(duration,
                                 RatMaxOf({earliest[d] : d \in t.depends_on})))

\* the task of the queue q with id task_id
QueuedTask(q, task_id) == q[CHOOSE i \in DOMAIN q : q[i].task_id = task_id]

\* A (duration 2, no dependencies), B (duration 3, depends on A) and
\* C (duration 1, depends on A), for an agent without throughput history
ExampleQueue ==
    <<TaskDependencyWithMetadata("A", "worker", {}, [complexity |-> 2, priority |-> "MEDIUM"]),
      TaskDependencyWithMetadata("B", "worker", {"A"}, [complexity |-> 3, priority |-> "MEDIUM"]),
      TaskDependencyWithMetadata("C", "worker", {"A"}, [complexity |-> 1, priority |-> "MEDIUM"])>>

\* C27: the critical path returned for an acyclic queue starts at a task with
\* no dependencies, each next task depends on the previous one, and its last
\* task has the largest earliest-completion value; for the queue A, B, C of
\* the example it is [A, B] with total duration 5.
C27_CriticalPath ==
    ret.outcome = "returned" =>
        LET critical_path == ret.critical_path
            earliest == ret.earliest_completion
        IN /\ critical_path # <<>>
           /\ QueuedTask(task_queue, critical_path[1]).depends_on = {}
           /\ \A i \in 1 .. Len(critical_path) - 1 :
                critical_path[i] \in QueuedTask(task_queue, critical_path[i + 1]).depends_on
           /\ \A t \in DOMAIN earliest :
                ~RatLess(earliest[critical_path[Len(critical_path)]], earliest[t])
           /\ (/\ task_queue = ExampleQueue
               /\ Throughput(agent_throughput, "worker").total_tasks = 0)
                => /\ critical_path = <<"A", "B">>
                   /\ RatEq(earliest["B"], <<5, 1>>)

\* ------------------------------------------------------------- simulation
MaxTicks == 6

\* position of a priority string in Python's str order, which is the order
\* max() and the tuple comparison of _find_suitable_task use
StrRank(priority) ==
    CASE priority = "HIGH" -> 1
      [] priority = "LOW" -> 2
      [] priority = "MEDIUM" -> 3

\* key a < key b for the (priority, complexity) tuples of _find_suitable_task
KeyLess(a, b) ==
    \/ StrRank(a.metadata.priority) < StrRank(b.metadata.priority)
    \/ /\ a.metadata.priority = b.metadata.priority
       /\ a.metadata.complexity < b.metadata.complexity

\* TimelineEstimatorAgent._find_suitable_task: None as <<>>, a task as <<task>>;
\* max() returns the first of the tasks whose key is largest
_find_suitable_task(ready_tasks, agent_id) ==
    LET suitable_tasks == SelectSeq(ready_tasks, LAMBDA task : task.agent_id = agent_id)
    IN IF suitable_tasks = <<>> THEN <<>>
       ELSE LET first == CHOOSE i \in DOMAIN suitable_tasks :
                    /\ \A j \in DOMAIN suitable_tasks :
                        ~KeyLess(suitable_tasks[i], suitable_tasks[j])
                    /\ \A j \in 1 .. i - 1 : KeyLess(suitable_tasks[j], suitable_tasks[i])
            IN <<suitable_tasks[first]>>

\* TimelineEstimatorAgent._get_ready_tasks: the estimator never assigns
\* self.completed_tasks, so the membership test of a task that has a
\* dependency raises AttributeError; a task without dependencies is ready
\* without the attribute being read
_get_ready_tasks_of_queue(q) ==
    IF \E i \in DOMAIN q : q[i].depends_on # {}
        THEN [raised |-> "AttributeError", ready_tasks |-> <<>>]
        ELSE [raised |-> "none", ready_tasks |-> q]

\* list.remove(x): the list without the first element equal to x
ListRemove(l, x) ==
    LET first == CHOOSE i \in DOMAIN l : l[i] = x /\ \A j \in 1 .. i - 1 : l[j] # x
    IN [i \in 1 .. Len(l) - 1 |-> IF i < first THEN l[i] ELSE l[i + 1]]

\* simulation_time >= state["start_time"] + duration
IsOver(throughputs, sim, state) ==
    ~RatLess(<<sim.simulation_time, 1>>,
             RatAdd(<<state.start_time, 1>>,
                    _estimate_task_duration(throughputs, state.current_task[1])))

RECURSIVE UpdateAgentStates(_, _, _)
\* the loop "Update agent states" over the first n entries of agent_states
UpdateAgentStates(throughputs, sim, n) ==
    IF n = 0 THEN sim
    ELSE LET s == UpdateAgentStates(throughputs, sim, n - 1)
             state == s.agent_states[n]
         IN IF state.current_task # <<>> /\ IsOver(throughputs, s, state)
              THEN LET task == state.current_task[1]
                       duration == _estimate_task_duration(throughputs, task)
                       window == [start |-> state.start_time,
                                  end |-> s.simulation_time, duration |-> duration]
                   IN [s EXCEPT
                        !.agent_states[n] =
                            [state EXCEPT !.completed_tasks = Append(@, task.task_id),
                                          !.current_task = <<>>, !.start_time = 0],
                        !.task_completion_times = MapSet(@, task.task_id, window),
                        !.completed_tasks = @ \cup {task.task_id}]
              ELSE s

RECURSIVE AssignIdleAgents(_, _)
\* the loop "Assign new tasks to idle agents" over the first n entries
AssignIdleAgents(sim, n) ==
    IF n = 0 THEN sim
    ELSE LET s == AssignIdleAgents(sim, n - 1)
             state == s.agent_states[n]
             task == _find_suitable_task(s.ready_tasks, state.agent_id)
         IN IF state.current_task = <<>> /\ s.ready_tasks # <<>> /\ task # <<>>
              THEN [s EXCEPT !.agent_states[n] =
                                [state EXCEPT !.current_task = task,
                                              !.start_time = s.simulation_time],
                             !.ready_tasks = ListRemove(@, task[1])]
              ELSE s

\* the condition of the while loop of _simulate_execution
SimulationContinues(sim) ==
    \/ sim.ready_tasks # <<>>
    \/ \E i \in DOMAIN sim.agent_states : sim.agent_states[i].current_task # <<>>

\* _simulate_execution up to its while loop: agent_states is an empty
\* defaultdict and the first ready list comes from _get_ready_tasks
SimulationStart ==
    /\ simulation = NoSimulation
    /\ LET first_ready == _get_ready_tasks_of_queue(task_queue)
       IN simulation' =
            [pc |-> IF first_ready.raised = "none" THEN "loop" ELSE "raised",
             ready_tasks |-> first_ready.ready_tasks,
             completed_tasks |-> {},
             agent_states |-> <<>>,
             simulation_time |-> 0,
             task_completion_times |-> <<>>,
             total_duration |-> 0]
    /\ UNCHANGED <<scheduler_vars, milestones, now, task_queue, agent_throughput,
                   network, _message_cache, ret>>

\* one evaluation of the while condition: either one pass of the loop body,
\* or the exit of the loop with total_duration set
SimulationStep ==
    /\ simulation.pc = "loop"
    /\ simulation.simulation_time < MaxTicks
    /\ IF SimulationContinues(simulation)
         THEN LET updated == UpdateAgentStates(agent_throughput, simulation,
                                               Len(simulation.agent_states))
                  assigned == AssignIdleAgents(updated, Len(updated.agent_states))
                  new_ready_tasks == _get_ready_tasks_of_queue(task_queue)
              IN simulation' =
                    IF new_ready_tasks.raised = "none"
                      THEN [assigned EXCEPT
                                !.ready_tasks = @ \o new_ready_tasks.ready_tasks,
                                !.simulation_time = @ + 1]
                      ELSE [assigned EXCEPT !.pc = "raised"]
         ELSE simulation' = [simulation EXCEPT !.pc = "done",
                                               !.total_duration = simulation.simulation_time]
    /\ UNCHANGED <<scheduler_vars, milestones, now, task_queue, agent_throughput,
                   network, _message_cache, ret>>

InitSimulate ==
    /\ IdleScheduler
    /\ milestones = <<>>
    /\ now = 0
    /\ task_queue \in TaskQueues
    /\ agent_throughput = <<>>
    /\ simulation = NoSimulation
    /\ network = {}
    /\ _message_cache = <<>>
    /\ ret = None

NextSimulate == SimulationStart \/ SimulationStep

SpecSimulate == InitSimulate /\ [][NextSimulate]_vars

\* the float a rounded up to an integer
Ceil(a) == (a[1] + a[2] - 1) \div a[2]

RECURSIVE SerialTicks(_, _, _)
\* ticks that suffice to run the first n tasks of q one after the other, each
\* for its estimated duration rounded up plus the tick that assigns it
SerialTicks(throughputs, q, n) ==
    IF n = 0 THEN 0
    ELSE SerialTicks(throughputs, q, n - 1)
            + Ceil(_estimate_task_duration(throughputs, q[n])) + 1

\* C28: for every non-empty acyclic queue the simulation ends without an
\* error after finitely many ticks (no schedule needs more than the ticks of
\* a one-at-a-time execution), and at its end every task has one completion
\* window with end - start >= its estimated duration, total_duration being
\* the tick at which the last task completed.
C28_SimulationCompletes ==
    /\ simulation.pc # "raised"
    /\ simulation.pc = "loop" =>
            simulation.simulation_time <= SerialTicks(agent_throughput, task_queue,
                                                      Len(task_queue))
    /\ simulation.pc = "done" =>
        /\ \A i \in DOMAIN task_queue :
            LET t == task_queue[i]
                times == simulation.task_completion_times
            IN /\ t.task_id \in DOMAIN times
               /\ ~RatLess(<<times[t.task_id].end - times[t.task_id].start, 1>>,
                           _estimate_task_duration(agent_throughput, t))
        /\ \E id \in DOMAIN simulation.task_completion_times :
            /\ simulation.task_completion_times[id].end = simulation.total_duration
            /\ \A other \in DOMAIN simulation.task_completion_times :
                simulation.task_completion_times[other].end <= simulation.total_duration

\* ------------------------------------------------------------ task choice
\* the ready tasks of a queue whose tasks have no dependencies, for any
\* agents, priorities and complexities
ReadyLists ==
    LET T(task_id) == {TaskDependencyWithMetadata(task_id, agent_id, {},
                                                  [complexity |-> c, priority |-> p]) :
                        agent_id \in agents, c \in 1 .. MaxComplexity, p \in Priorities}
    IN {<<a>> : a \in T("A")}
        \cup {<<a, b>> : a \in T("A"), b \in T("B")}
        \cup {<<a, b, c>> : a \in T("A"), b \in T("B"), c \in T("C")}

\* no call of _find_suitable_task made yet
NoChoice == [outcome |-> "not called", agent_id |-> "none", task |-> <<>>]

\* "task = self._find_suitable_task(ready_tasks, agent_id)" for an idle agent
FindSuitableTask(agent_id) ==
    /\ ret.outcome = "not called"
    /\ ret' = [outcome |-> "returned", agent_id |-> agent_id,
               task |-> _find_suitable_task(simulation.ready_tasks, agent_id)]
    /\ UNCHANGED <<scheduler_vars, milestones, now, task_queue, agent_throughput,
                   simulation, network, _message_cache>>

\* _simulate_execution inside its loop, ready_tasks holding the ready tasks
InitSuitable ==
    /\ IdleScheduler
    /\ milestones = <<>>
    /\ now = 0
    /\ task_queue = <<>>
    /\ agent_throughput = <<>>
    /\ simulation \in {[pc |-> "assign", ready_tasks |-> r] : r \in ReadyLists}
    /\ network = {}
    /\ _message_cache = <<>>
    /\ ret = NoChoice

NextSuitable == \E agent_id \in agents : FindSuitableTask(agent_id)

SpecSuitable == InitSuitable /\ [][NextSuitable]_vars

\* HIGH before MEDIUM before LOW
PriorityLevel(priority) ==
    CASE priority = "HIGH" -> 3
      [] priority = "MEDIUM" -> 2
      [] priority = "LOW" -> 1

\* C29: an idle agent is assigned, among the ready tasks that target it, one
\* with the highest priority (HIGH before MEDIUM before LOW); a lower-priority
\* task is never chosen while a higher-priority ready task for the same agent
\* exists.
C29_TaskChoice ==
    ret.outcome = "returned" =>
        LET suitable == {i \in DOMAIN simulation.ready_tasks :
                            simulation.ready_tasks[i].agent_id = ret.agent_id}
        IN suitable # {} =>
            /\ ret.task # <<>>
            /\ \E i \in suitable : simulation.ready_tasks[i] = ret.task[1]
            /\ \A i \in suitable :
                PriorityLevel(simulation.ready_tasks[i].metadata.priority)
                    <= PriorityLevel(ret.task[1].metadata.priority)

\* ------------------------------------------------------------- throughput
MaxUpdates == 3

\* task queues of tasks without dependencies; one task id is also the id of
\* an agent
NamedQueues ==
    LET T(task_id) == {TaskDependencyWithMetadata(task_id, agent_id, {},
                                                  [complexity |-> 5, priority |-> "MEDIUM"]) :
                        agent_id \in agents}
    IN {<<a>> : a \in T("A") \cup T("worker")}
        \cup {<<a, b>> : a \in T("A"), b \in T("worker")}

\* simulation["task_completion_times"] for the queue q in insertion order:
\* windows of some of its tasks, each task at most once
CompletionTimes(q) ==
    LET Window(i) == {[task_id |-> q[i].task_id, start |-> 0, end |-> d,
                       duration |-> <<d, 1>>] : d \in 1 .. MaxComplexity}
    IN UNION {{<<w>> : w \in Window(i)} : i \in DOMAIN q}
        \cup UNION {{<<w, v>> : w \in Window(i), v \in Window(j)} :
                        <<i, j>> \in {p \in (DOMAIN q) \X (DOMAIN q) : p[1] # p[2]}}

RECURSIVE _update_agent_throughput(_, _, _)
\* TimelineEstimatorAgent._update_agent_throughput after the first n items of
\* task_completion_times: the loop variable it calls agent_id is the key of
\* that dict, a task id
_update_agent_throughput(throughputs, times, n) ==
    IF n = 0 THEN throughputs
    ELSE LET earlier == _update_agent_throughput(throughputs, times, n - 1)
             agent_id == times[n].task_id
             completion_times == times[n]
         IN IF agent_id \in DOMAIN earlier
              THEN LET throughput == earlier[agent_id]
                       total_tasks == throughput.total_tasks + 1
                       average_duration ==
                            RatQuot(RatAdd(RatMul(throughput.average_duration,
                                                  <<total_tasks - 1, 1>>),
                                           completion_times.duration),
                                    <<total_tasks, 1>>)
                   IN [earlier EXCEPT ![agent_id] =
                        [total_tasks |-> total_tasks,
                         average_duration |-> average_duration,
                         tasks_per_minute |-> RatQuot(<<60, 1>>, average_duration)]]
              ELSE earlier

\* execute: "await self._update_agent_throughput(simulation)", the windows
\* handed in being appended to ret
UpdateAgentThroughput(times) ==
    /\ Len(ret) + Len(times) <= MaxUpdates
    /\ agent_throughput' = _update_agent_throughput(agent_throughput, times, Len(times))
    /\ ret' = ret \o times
    /\ UNCHANGED <<scheduler_vars, milestones, now, task_queue, simulation, network, _message_cache>>

\* execute after _analyze_task_queue: no agent has a history, and
\* _estimate_task_duration created the default entry of every agent of the queue
InitThroughput ==
    /\ IdleScheduler
    /\ milestones = <<>>
    /\ now = 0
    /\ task_queue \in NamedQueues
    /\ agent_throughput = [a \in {task_queue[i].agent_id : i \in DOMAIN task_queue}
                                |-> default_throughput]
    /\ simulation = NoSimulation
    /\ network = {}
    /\ _message_cache = <<>>
    /\ ret = <<>>

NextThroughput == \E times \in CompletionTimes(task_queue) : UpdateAgentThroughput(times)

SpecThroughput == InitThroughput /\ [][NextThroughput]_vars

\* the durations of the windows in ws that belong to tasks of q run by agent a
RecordedDurations(ws, q, a) ==
    LET mine == SelectSeq(ws, LAMBDA w : QueuedTask(q, w.task_id).agent_id = a)
    IN [i \in DOMAIN mine |-> mine[i].duration]

RECURSIVE RatSum(_, _)
\* sum of the first n floats of the sequence ds
RatSum(ds, n) == IF n = 0 THEN <<0, 1>> ELSE RatAdd(RatSum(ds, n - 1), ds[n])

\* C25: after N completions have been recorded for an agent that had no
\* history, the agent's total_tasks is N and its average_duration is the
\* arithmetic mean of the N recorded durations.
C25_ThroughputCorrectness ==
    \A a \in agents :
        LET durations == RecordedDurations(ret, task_queue, a)
            N == Len(durations)
            throughput == Throughput(agent_throughput, a)
        IN N > 0 =>
            /\ throughput.total_tasks = N
            /\ RatEq(RatMul(throughput.average_duration, <<N, 1>>), RatSum(durations, N))

\* ------------------------------------------------------- get_task_status
\* AgentOrchestrator.get_task_status: the ValueError it raises for an id that
\* is not a key of self.tasks, else the status entry of the dict it returns
get_task_status(task_id) ==
    IF task_id \notin TaskKeys THEN "ValueError"
    ELSE (CHOOSE task \in {tasks[i] : i \in DOMAIN tasks} : task.task_id = task_id).status

\* C30: for every task that was added to the orchestrator get_task_status
\* returns the task's current status at any later time; after the task has
\* completed it returns completed instead of failing with task-not-found.
C30_TaskStatusQueryable ==
    \A task_id \in DOMAIN task_dependencies :
        /\ get_task_status(task_id) # "ValueError"
        /\ (task_id \in DOMAIN completed_tasks /\ task_id \notin TaskKeys)
            => get_task_status(task_id) = completed_tasks[task_id].status

\* ------------------------------------------------------------ delay cap
\* C37 as stated: for every RetryStrategy with base_delay >= 0 and
\* max_delay >= 0, every strategy name and every attempt >= 1 the delay is at
\* most max_delay.
C37_DelayCapped ==
    (strategy.base_delay >= 0 /\ strategy.max_delay >= 0)
        => \A i \in DOMAIN sleeps : sleeps[i] <= strategy.max_delay

\* C37 amended: the delay is at most max_delay under exponential, linear and
\* an unknown strategy name; under fixed it is base_delay, which is at most
\* max_delay only when base_delay <= max_delay.
C37_DelayCapped_ExceptFixed ==
    (strategy.base_delay >= 0 /\ strategy.max_delay >= 0)
        => \A i \in DOMAIN sleeps :
            /\ strategy.strategy # "fixed" => sleeps[i] <= strategy.max_delay
            /\ strategy.strategy = "fixed" =>
                /\ sleeps[i] = strategy.base_delay
                /\ strategy.base_delay <= strategy.max_delay
                    => sleeps[i] <= strategy.max_delay

C37_Witness ==
    /\ Len(sleeps) = MaxAttempt
    /\ strategy.strategy = "exponential"
    /\ strategy.base_delay = 5
    /\ strategy.max_delay = 4
    /\ sleeps[1] = 4
    /\ sleeps[MaxAttempt] = 4

\* -------------------------------------------------------- project metrics
\* number of the tasks of self.tasks with this status
CountStatus(status) == Cardinality({i \in DOMAIN tasks : tasks[i].status = status})

\* AgentOrchestrator.get_project_metrics: the "tasks" entry of the dict
get_project_metrics ==
    [total |-> Len(tasks),
     completed |-> CountStatus("completed"),
     failed |-> CountStatus("failed"),
     in_progress |-> CountStatus("running"),
     pending |-> CountStatus("pending")]

\* C31: after a run of process_tasks the project metrics enumerate every task
\* of the run: tasks.total is the number of tasks that were added,
\* tasks.completed the number that ended completed and tasks.failed the number
\* that ended failed.
C31_FinalReportAccounting ==
    pc = "done" =>
        /\ get_project_metrics.total = Cardinality(DOMAIN task_dependencies)
        /\ get_project_metrics.completed =
            Cardinality({t \in DOMAIN completed_tasks :
                            completed_tasks[t].status = "completed"})
        /\ get_project_metrics.failed = Cardinality(FailedIds)

\* ----------------------------------------------------------- task status
\* the status self.tasks holds for the task the dispatch loop is working on
StatusOfCur ==
    (CHOOSE task \in {tasks[i] : i \in DOMAIN tasks} : task.task_id = cur.task_id).status

\* C32: in the dispatch loop a task is marked running before its agent is
\* invoked and stays running through every retry and backoff sleep: its
\* status is never pending while its agent call is in flight.
C32_RunningWhileInFlight ==
    (pc \in {"run", "backoff"} /\ cur.task_id \in TaskKeys) => StatusOfCur = "running"

\* C34: every task id that was ever added is in exactly one of self.tasks and
\* completed_tasks; every task of completed_tasks has status completed or
\* failed and every task of self.tasks has status pending or running.
C34_PartitionInvariant ==
    /\ \A t \in DOMAIN task_dependencies :
        (t \in TaskKeys) # (t \in DOMAIN completed_tasks)
    /\ \A t \in DOMAIN completed_tasks :
        completed_tasks[t].status \in {"completed", "failed"}
    /\ \A i \in DOMAIN tasks : tasks[i].status \in {"pending", "running"}

\* the TaskDependency objects the orchestrator holds under task id t
TasksWithId(t) ==
    {tasks[i] : i \in {j \in DOMAIN tasks : tasks[j].task_id = t}}
        \cup (IF t \in DOMAIN completed_tasks THEN {completed_tasks[t]} ELSE {})

\* C35: the forward and reverse dependency maps are inverse of each other and
\* agree with the tasks: d is in task_dependencies[t] iff t is in
\* reverse_dependencies[d] iff d is in the depends_on of task t.
C35_DependencyMapConsistency ==
    \A t \in TaskIds, d \in TaskIds :
        LET forward == t \in DOMAIN task_dependencies /\ d \in task_dependencies[t]
            reverse == d \in DOMAIN reverse_dependencies /\ t \in reverse_dependencies[d]
        IN /\ forward <=> reverse
           /\ \A task \in TasksWithId(t) : forward <=> d \in task.depends_on

\* C36: once a task has reached completed or failed, no operation of the
\* orchestrator invokes an agent for that task id again.
C36_NoReexecution ==
    [][StartsTask => cur'.task_id \notin DOMAIN completed_tasks]_vars

\* ------------------------------------------------------------ execute_task
\* execute_task calls that reach the agent, per behaviour
MaxExecutes == 2

\* execute_task has not been called
NoExecution == [outcome |-> "not called", task_id |-> "none", reason |-> "none"]

\* the dict an agent's run_task returns to execute_task
AgentReturn == [status |-> "success", tasks |-> <<>>]

\* "raise ValueError(...)" / the KeyError of self.agents[task.agent_id],
\* before execute_task has assigned anything
ExecuteRaises(task_id, error_type, reason) ==
    /\ ret' = [outcome |-> error_type, task_id |-> task_id, reason |-> reason]
    /\ UNCHANGED <<tasks, cur, result, log, pc>>

\* AgentOrchestrator.execute_task up to "await agent.run_task(...)"
execute_task(task_id) ==
    /\ pc = "idle"
    /\ IF task_id \notin TaskKeys
         THEN ExecuteRaises(task_id, "ValueError", "task not found")
       ELSE LET task == tasks[CHOOSE i \in DOMAIN tasks : tasks[i].task_id = task_id]
                missing == {dep_id \in task.depends_on : dep_id \notin TaskKeys}
                unfinished == {dep_id \in task.depends_on \ missing :
                                 \E i \in DOMAIN tasks : /\ tasks[i].task_id = dep_id
                                                         /\ tasks[i].status # "completed"}
            IN IF missing # {}
                 THEN ExecuteRaises(task_id, "ValueError", "dependency not found")
               ELSE IF unfinished # {}
                 THEN ExecuteRaises(task_id, "ValueError", "dependency not completed")
               ELSE IF task.agent_id \notin agents
                 THEN ExecuteRaises(task_id, "KeyError", "agent")
               ELSE /\ Len(log) < MaxExecutes
                    /\ tasks' = DictSet(tasks, [task EXCEPT !.status = "running"])
                    /\ cur' = [task EXCEPT !.status = "running"]
                    /\ result' = NoReturn
                    /\ log' = Append(log, task_id)
                    /\ pc' = "exec_run"
                    /\ ret' = [outcome |-> "running", task_id |-> task_id, reason |-> "none"]
    /\ UNCHANGED <<completed_tasks, task_dependencies, reverse_dependencies, completions,
                   ready, attempt, sleeps, metric, adds, strategy, milestones, now,
                   task_queue, agent_throughput, simulation, network, _message_cache>>

\* the except branch of execute_task for the exception e: the task is marked
\* failed (task.result keeps what the try assigned) and a failed
\* TaskCompletion is handed to the feedback system
ExecuteExcept(e) ==
    LET task == tasks[CHOOSE i \in DOMAIN tasks : tasks[i].task_id = cur.task_id]
    IN /\ tasks' = DictSet(tasks, [task EXCEPT !.status = "failed"])
       /\ completions' = record_task_completion(cur.task_id, FALSE)
       /\ pc' = "exec_record_failed"
       /\ ret' = [ret EXCEPT !.reason = e]
       /\ UNCHANGED <<completed_tasks, task_dependencies, reverse_dependencies, ready,
                      cur, attempt, log, sleeps, metric, adds, strategy, milestones,
                      now, task_queue, agent_throughput, simulation, network, _message_cache>>

\* agent.run_task returns: the task is marked completed, its result stored
\* and a successful TaskCompletion handed to the feedback system
ExecuteAgentReturns ==
    /\ pc = "exec_run"
    /\ result' = AgentReturn
    /\ tasks' = DictSet(tasks, [cur EXCEPT !.status = "completed",
                                           !.result = AgentResult("success")])
    /\ completions' = record_task_completion(cur.task_id, TRUE)
    /\ pc' = "exec_record"
    /\ UNCHANGED <<completed_tasks, task_dependencies, reverse_dependencies, ready, cur,
                   attempt, log, sleeps, metric, adds, strategy, milestones, now,
                   task_queue, agent_throughput, simulation, network, _message_cache, ret>>

\* agent.run_task raises
ExecuteAgentRaises ==
    /\ pc = "exec_run"
    /\ result' = NoReturn
    /\ ExecuteExcept("agent exception")

\* "return result"; awaited names the last await of the try
ExecuteReturns(awaited) ==
    /\ pc' = "idle"
    /\ ret' = [ret EXCEPT !.outcome = "returned", !.reason = awaited]
    /\ UNCHANGED <<tasks, completed_tasks, task_dependencies, reverse_dependencies,
                   completions, ready, cur, attempt, result, log, sleeps, metric, adds,
                   strategy, milestones, now, task_queue, agent_throughput, simulation, network, _message_cache>>

\* record_task_completion returns inside the try; has_milestone is
\* "task.metadata and task.metadata.get('milestone_id')"
ExecuteRecordReturns(has_milestone) ==
    /\ pc = "exec_record"
    /\ IF has_milestone
         THEN /\ pc' = "exec_milestone"
              /\ UNCHANGED <<tasks, completed_tasks, task_dependencies,
                             reverse_dependencies, completions, ready, cur, attempt,
                             result, log, sleeps, metric, adds, strategy, milestones,
                             now, task_queue, agent_throughput, simulation, network, _message_cache, ret>>
         ELSE ExecuteReturns("record_task_completion")

\* record_task_completion raises inside the try
ExecuteRecordRaises ==
    /\ pc = "exec_record"
    /\ UNCHANGED result
    /\ ExecuteExcept("feedback exception")

\* _update_milestone_progress returns inside the try
ExecuteMilestoneReturns ==
    /\ pc = "exec_milestone"
    /\ ExecuteReturns("_update_milestone_progress")

\* _update_milestone_progress raises inside the try
ExecuteMilestoneRaises ==
    /\ pc = "exec_milestone"
    /\ UNCHANGED result
    /\ ExecuteExcept("milestone exception")

\* record_task_completion of the except branch returns or raises: either way
\* the exception leaves execute_task
ExecuteReraises ==
    /\ pc = "exec_record_failed"
    /\ pc' = "idle"
    /\ ret' = [ret EXCEPT !.outcome = "raised"]
    /\ UNCHANGED <<tasks, completed_tasks, task_dependencies, reverse_dependencies,
                   completions, ready, cur, attempt, result, log, sleeps, metric, adds,
                   strategy, milestones, now, task_queue, agent_throughput, simulation, network, _message_cache>>

\* add_task and execute_task calls of a caller that awaits each call
NextExecute ==
    \/ \E task_id \in TaskIds, agent_id \in AgentChoices, dependencies \in OptionalDeps :
            /\ pc = "idle"
            /\ add_task(task_id, agent_id, dependencies)
    \/ \E task_id \in TaskIds : execute_task(task_id)
    \/ ExecuteAgentReturns
    \/ ExecuteAgentRaises
    \/ \E has_milestone \in BOOLEAN : ExecuteRecordReturns(has_milestone)
    \/ ExecuteRecordRaises
    \/ ExecuteMilestoneReturns
    \/ ExecuteMilestoneRaises
    \/ ExecuteReraises

InitExecute ==
    /\ IdleScheduler
    /\ milestones = <<>>
    /\ now = 0
    /\ task_queue = <<>>
    /\ agent_throughput = <<>>
    /\ simulation = NoSimulation
    /\ network = {}
    /\ _message_cache = <<>>
    /\ ret = NoExecution

SpecExecute == InitExecute /\ [][NextExecute]_vars

\* the three error cases: unknown task_id, a dependency id that is not in the
\* task map, a dependency whose status is not completed
ExecutePreconditionFails(task_id) ==
    \/ task_id \notin TaskKeys
    \/ \E i \in DOMAIN tasks :
         /\ tasks[i].task_id = task_id
         /\ \E dep_id \in tasks[i].depends_on :
              \/ dep_id \notin TaskKeys
              \/ \E j \in DOMAIN tasks : /\ tasks[j].task_id = dep_id
                                         /\ tasks[j].status # "completed"

\* the statuses the task map holds for task_id
StatusesOf(ts, task_id) == {ts[i].status : i \in {j \in DOMAIN ts : ts[j].task_id = task_id}}

\* C33: execute_task(task_id) raises an error, invokes no agent, records no
\* TaskCompletion and leaves every task unchanged when task_id is unknown,
\* when a dependency id is not in the task map or when a dependency is not
\* completed; otherwise it sets the task running and invokes the agent once,
\* and the call ends with the task completed when the agent returned and
\* failed, the exception re-raised, when the agent raised.
C33_ExecuteTaskPrecondition ==
    [][/\ \A task_id \in TaskIds :
            execute_task(task_id) =>
                IF ExecutePreconditionFails(task_id)
                  THEN /\ ret'.outcome = "ValueError"
                       /\ UNCHANGED <<tasks, completions, log>>
                  ELSE /\ StatusesOf(tasks', task_id) = {"running"}
                       /\ log' = Append(log, task_id)
                       /\ UNCHANGED completions
       /\ (pc \in {"exec_record", "exec_milestone", "exec_record_failed"} /\ pc' = "idle")
            => IF result' = AgentReturn
                 THEN /\ StatusesOf(tasks', cur.task_id) = {"completed"}
                      /\ ret'.outcome = "returned"
                 ELSE /\ StatusesOf(tasks', cur.task_id) = {"failed"}
                      /\ ret'.outcome = "raised"]_vars

\* ------------------------------------------------------ request_agent_task
\* f"inter-{requesting_agent_id}-{target_agent_id}-{len(self.tasks)}"
InterTaskId(requesting_agent_id, target_agent_id) ==
    "inter-" \o requesting_agent_id \o "-" \o target_agent_id \o "-" \o ToString(Len(tasks))

\* AgentOrchestrator.request_agent_task: AgentError for an unknown target;
\* otherwise add_task is awaited without a dependencies argument, so it stores
\* the task and its empty dependency set and then raises TypeError at
\* "for dep in dependencies", which leaves request_agent_task
request_agent_task(requesting_agent_id, target_agent_id) ==
    /\ pc = "idle"
    /\ IF target_agent_id \notin agents
         THEN /\ ret' = [outcome |-> "AgentError", task_id |-> "none"]
              /\ UNCHANGED <<tasks, task_dependencies, adds>>
         ELSE LET task_id == InterTaskId(requesting_agent_id, target_agent_id)
              IN /\ adds < MaxAdds
                 /\ tasks' = DictSet(tasks, TaskDependency(task_id, target_agent_id, {}))
                 /\ task_dependencies' = MapSet(task_dependencies, task_id, {})
                 /\ adds' = adds + 1
                 /\ ret' = [outcome |-> "TypeError", task_id |-> task_id]
    /\ UNCHANGED <<completed_tasks, reverse_dependencies, completions, pc, ready, cur,
                   attempt, result, log, sleeps, metric, strategy, milestones, now,
                   task_queue, agent_throughput, simulation, network, _message_cache>>

\* add_task and request_agent_task calls of callers that await each call
NextRequest ==
    \/ \E task_id \in TaskIds, agent_id \in AgentChoices, dependencies \in OptionalDeps :
            /\ pc = "idle"
            /\ add_task(task_id, agent_id, dependencies)
    \/ \E requesting_agent_id \in agents, target_agent_id \in AgentChoices :
            request_agent_task(requesting_agent_id, target_agent_id)

SpecRequest == Init /\ [][NextRequest]_vars

\* C38: request_agent_task raises AgentError and leaves the task map unchanged
\* when the target agent is not registered; for a registered target it adds
\* exactly one new pending task for that agent under a task_id no other task
\* uses and returns status requested with that task_id.
C38_InterAgentRequest ==
    [][\A requesting_agent_id \in agents, target_agent_id \in AgentChoices :
           request_agent_task(requesting_agent_id, target_agent_id) =>
               IF target_agent_id \notin agents
                 THEN /\ ret'.outcome = "AgentError"
                      /\ UNCHANGED tasks
                 ELSE /\ ret'.outcome = "requested"
                      /\ ret'.task_id \notin TaskKeys \cup DOMAIN completed_tasks
                      /\ Len(tasks') = Len(tasks) + 1
                      /\ SubSeq(tasks', 1, Len(tasks)) = tasks
                      /\ tasks'[Len(tasks')] =
                            TaskDependency(ret'.task_id, target_agent_id, {})]_vars

\* ------------------------------------------- assignments of the simulation
\* the agents whose state gets a current_task in this step of the loop
AssignedNow ==
    {i \in DOMAIN simulation'.agent_states :
        /\ simulation'.agent_states[i].current_task # <<>>
        /\ \/ i \notin DOMAIN simulation.agent_states
           \/ simulation.agent_states[i].current_task
                # simulation'.agent_states[i].current_task}

\* C39: in the simulation a task is never assigned while it is running or
\* after it has completed (so it is assigned at most once), and it is not
\* started before every task in its depends_on has completed.
C39_SimulationAssignments ==
    [][(simulation.pc = "loop" /\ simulation'.pc = "loop") =>
         \A i \in AssignedNow :
            LET task == simulation'.agent_states[i].current_task[1]
            IN /\ task.task_id \notin simulation.completed_tasks
               /\ task.task_id \notin simulation'.completed_tasks
               /\ \A j \in DOMAIN simulation.agent_states :
                     simulation.agent_states[j].current_task # <<task>>
               /\ task.depends_on \subseteq simulation'.completed_tasks]_vars

\* agent_states is created empty and only ever iterated: no pass of the loop
\* has an agent to assign a task to
C39_NoAgentState ==
    simulation # NoSimulation => simulation.agent_states = <<>>

\* ----------------------------------------------------- SecureCommunication
\* the 300 seconds of decrypt_message and cleanup
MessageWindow == 300

\* seconds between two readings of time.time() that differ, the first and
\* the last reading of a behaviour
ClockStep == 150
StartClock == 300
MaxClock == 900

\* messages encrypted per behaviour, and messages accepted per behaviour
MaxMessages == 2
MaxAccepts == 3

\* nonce values, and the timestamp values a caller of encrypt_message puts
\* into a Message by hand (send_message takes the clock's reading)
Nonces == {"n1", "n2"}
MessageTimestamps == {0, 150, 1200}

\* the fields of a Message that decrypt_message reads; any message produced
\* by encrypt_message of this instance decrypts and carries a valid signature
Messages == [sender_id : agents, nonce : Nonces,
             timestamp : MessageTimestamps \cup {t \in StartClock .. MaxClock :
                                                   (t - StartClock) % ClockStep = 0}]

\* a string that encrypt_message did not produce
ForgedMessage == [sender_id |-> "intruder", nonce |-> "n0", timestamp |-> 0]

\* f"{message.sender_id}:{message.nonce}"
message_key(message) == message.sender_id \o ":" \o message.nonce

\* no receive_message call yet
NoDelivery == [outcome |-> "none", accepted |-> <<>>]

\* SecureCommunication.encrypt_message: the encrypted message exists from now
\* on; a nonce is not reused for a sender
encrypt_message(message) ==
    /\ Cardinality(network) < MaxMessages
    /\ \A m \in network : message_key(m) # message_key(message)
    /\ network' = network \cup {message}
    /\ UNCHANGED <<scheduler_vars, milestones, now, task_queue, agent_throughput,
                   simulation, _message_cache, ret>>

\* SecureCommunication.send_message of the instance of agent_id: a Message
\* with timestamp time.time() and a fresh nonce, encrypted
send_message(agent_id, nonce) ==
    encrypt_message([sender_id |-> agent_id, nonce |-> nonce, timestamp |-> now])

\* SecureCommunication.decrypt_message on the cache: the exception raised, or
\* the cache with the message's key added
decrypt_message(cache, encrypted_message, current_time) ==
    IF encrypted_message = ForgedMessage
      THEN [outcome |-> "InvalidToken", cache |-> cache]
    ELSE IF encrypted_message.timestamp < current_time - MessageWindow
      THEN [outcome |-> "Message too old", cache |-> cache]
    ELSE IF message_key(encrypted_message) \in DOMAIN cache
      THEN [outcome |-> "Duplicate message", cache |-> cache]
    ELSE [outcome |-> "returned",
          cache |-> MapSet(cache, message_key(encrypted_message), current_time)]

\* SecureCommunication.receive_message
receive_message(encrypted_message) ==
    LET decrypted == decrypt_message(_message_cache, encrypted_message, now)
    IN /\ decrypted.outcome = "returned" => Len(ret.accepted) < MaxAccepts
       /\ _message_cache' = decrypted.cache
       /\ ret' = [outcome |-> decrypted.outcome,
                  accepted |-> IF decrypted.outcome = "returned"
                                 THEN Append(ret.accepted, encrypted_message)
                                 ELSE ret.accepted]
       /\ UNCHANGED <<scheduler_vars, milestones, now, task_queue, agent_throughput,
                      simulation, network>>

\* the cache after SecureCommunication.cleanup at current_time
cleaned_cache(cache, current_time) ==
    [k \in {key \in DOMAIN cache : current_time - cache[key] < MessageWindow} |-> cache[k]]

\* SecureCommunication.cleanup
cleanup ==
    /\ _message_cache' = cleaned_cache(_message_cache, now)
    /\ UNCHANGED <<scheduler_vars, milestones, now, task_queue, agent_throughput,
                   simulation, network, ret>>

\* time.time() reads a later value
ClockAdvances ==
    /\ now < MaxClock
    /\ now' = now + ClockStep
    /\ UNCHANGED <<scheduler_vars, milestones, task_queue, agent_throughput,
                   simulation, network, _message_cache, ret>>

InitReceive ==
    /\ IdleScheduler
    /\ milestones = <<>>
    /\ now = StartClock
    /\ task_queue = <<>>
    /\ agent_throughput = <<>>
    /\ simulation = NoSimulation
    /\ network = {}
    /\ _message_cache = <<>>
    /\ ret = NoDelivery

NextReceive ==
    \/ \E message \in Messages : encrypt_message(message)
    \/ \E agent_id \in agents, nonce \in Nonces : send_message(agent_id, nonce)
    \/ \E encrypted_message \in network \cup {ForgedMessage} :
            receive_message(encrypted_message)
    \/ cleanup
    \/ ClockAdvances

SpecReceive == InitReceive /\ [][NextReceive]_vars

\* C40: under any interleaving of receive_message and cleanup calls and any
\* message timestamps, a message (same sender_id and nonce) is accepted at
\* most once; every later delivery of it is rejected.
C40_ReplayProtection ==
    \A i, j \in DOMAIN ret.accepted :
        i # j => message_key(ret.accepted[i]) # message_key(ret.accepted[j])

====
